---- MODULE Spec2Model ----
(***************************************************************************)
(* Rick-and-Morty ingestion pipeline: paged fetcher with retry/backoff     *)
(* (RickandMorty/fetchers2.py), the fetcher main.py imports                *)
(* (rickandmorty/fetchers.py), batch persister (RickandMorty/db_helpers.py)*)
(* and orchestrator (rickandmorty/main.py).                                *)
(***************************************************************************)
EXTENDS Integers, Sequences, FiniteSets, TLC

\* ------------------------------------------------------------------ bounds
MaxPages == 2
RecsPerPage == 2

MaxId == 2
MaxRows == 3
\* Rows per page of execute_batch: stands for page_size=1000, scaled down so
\* that a call of MaxRows rows spans more than one page.
page_size == 2
\* Records per entity type a run is handed.
MaxEntities == 2
\* Episodes of a run whose character lists vary.
MaxEpisodes == 1

\* ------------------------------------------------------- program constants
MAX_RETRIES == 5
\* 1.5 seconds, as the fraction <<numerator, denominator>>
BACKOFF_FACTOR == <<3, 2>>

RECURSIVE Power(_, _)
\* x ** n on fractions
Power(x, n) ==
    IF n = 0 THEN <<1, 1>>
    ELSE <<x[1] * Power(x, n - 1)[1], x[2] * Power(x, n - 1)[2]>>

\* The delay of the exponent taken from the attempt, not from attempt - 1.
BackoffByAttempt(attempt) == Power(BACKOFF_FACTOR, attempt)
\* BACKOFF_FACTOR ** (attempt - 1)
Backoff(attempt) == Power(BACKOFF_FACTOR, attempt - 1)

VARIABLES
    fa_pc,        \* fetch_all_entities: "idle" | "total" | "gather" | "returned" | "raised"
    tp_pc,        \* get_total_pages: "idle" | "get" | "sleep" | "done" | "failed" | "raised"
    tp_attempt,   \* loop variable `attempt` of get_total_pages
    total_pages,  \* local total_pages of fetch_all_entities
    pg_pc,        \* fetch_page task per page: "none" | "get" | "sleep" | "done" | "failed" | "raised"
    pg_attempt,   \* loop variable `attempt` of each fetch_page task
    pg_body,      \* body kind of the 200 response a task returned from ("none" before)
    pg_result,    \* value returned by each fetch_page task
    requests,     \* GETs issued per URL: index 0 is base_url, p is base_url?page=p
    sleeps,       \* asyncio.sleep calls per URL
    delays,       \* the delays slept per URL, in seconds as <<numerator, denominator>>
    doneOrder,    \* page numbers in the order their tasks completed
    ret,          \* value returned by fetch_all_entities
    exc,          \* exception propagating out of the running call ("none" when there is none)
    db,           \* committed rows of each table, as every session sees them
    txn_state,    \* the connection's transaction: "idle" | "open" | "aborted"
    txn_work,     \* the tables as the open transaction sees them (uncommitted work included)
    bi_pc,        \* batch_insert: "idle" | "exec" | "commit" | "returned" | "raised"
    bi_table,     \* parameter table
    bi_data,      \* parameter data
    bi_columns,   \* parameter columns
    bi_values,    \* local values
    bi_sent,      \* rows of values execute_batch has sent so far
    bi_before,    \* db as it was when the running batch_insert call started
    calls,        \* batch_insert calls the driver has made
    after_first,  \* db as it was when the driver's first call returned
    main_pc,      \* main(): the statement it is at, "done" or "raised"
    raised_at,    \* the statement of main an exception left it from
    api,          \* what the remote API serves in reference fields
    characters_raw, locations_raw, episodes_raw,   \* locals of main
    characters, locations, episodes,               \* locals of main
    loc_lookup,   \* local loc_lookup of main: the name -> id dict
    conn,         \* the connection: "none" | "open" | "closed"
    loop_i        \* entities the running for loop of main has been through

fetchVars == <<fa_pc, tp_pc, tp_attempt, total_pages, pg_pc, pg_attempt, pg_body,
               pg_result, requests, sleeps, delays, doneOrder, ret>>

dbVars == <<db, txn_state, txn_work, bi_pc, bi_table, bi_data, bi_columns, bi_values,
            bi_sent, bi_before, calls, after_first>>

mainVars == <<main_pc, raised_at, api, characters_raw, locations_raw, episodes_raw,
              characters, locations, episodes, loc_lookup, conn, loop_i>>

vars == <<fetchVars, dbVars, mainVars, exc>>

\* What the fetcher's steps leave alone, and what the persister's steps leave alone.
nonFetchVars == <<dbVars, mainVars>>
nonDbVars == <<fetchVars, mainVars>>

\* --------------------------------------------------------- the remote API
PageIds == 1..MaxPages
Urls == 0..MaxPages

\* The "results" array the API serves for page p: RecsPerPage records.
Records(p) == [k \in 1..RecsPerPage |-> p * 10 + k]

\* Bodies of a 200 response: a JSON object with the expected keys, a JSON
\* object without them, and a body json() cannot decode.
Bodies == {"full", "nokey", "notjson"}

RECURSIVE FlattenPages(_)
\* [item for page in pages for item in page]
FlattenPages(pages) ==
    IF pages = <<>> THEN <<>> ELSE Head(pages) \o FlattenPages(Tail(pages))

\* range(1, total_pages + 1)
PageRange(n) == 1..n

\* data.get("results", [])
ResultsOf(body, p) == IF body = "full" THEN Records(p) ELSE <<>>

IdleFetch ==
    /\ fa_pc = "idle"
    /\ tp_pc = "idle"
    /\ tp_attempt = 0
    /\ total_pages = 0
    /\ pg_pc = [p \in PageIds |-> "none"]
    /\ pg_attempt = [p \in PageIds |-> 0]
    /\ pg_body = [p \in PageIds |-> "none"]
    /\ pg_result = [p \in PageIds |-> <<>>]
    /\ requests = [u \in Urls |-> 0]
    /\ sleeps = [u \in Urls |-> 0]
    /\ delays = [u \in Urls |-> <<>>]
    /\ doneOrder = <<>>
    /\ ret = <<>>
    /\ exc = "none"

\* ----------------------------------------- fetchers2.py: get_total_pages
\* One GET of base_url that fails in a way the loop handles: a ClientError,
\* a timeout, or a status other than 200.
TP_GetFails ==
    /\ fa_pc = "total" /\ tp_pc = "get"
    /\ requests' = [requests EXCEPT ![0] = @ + 1]
    /\ tp_pc' = "sleep"
    /\ UNCHANGED <<fa_pc, tp_attempt, total_pages, pg_pc, pg_attempt, pg_body,
                   pg_result, sleeps, delays, doneOrder, ret, exc>>
    /\ UNCHANGED nonFetchVars

\* One GET of base_url answered 200: data["info"]["pages"] is returned, or
\* json() / the subscript raises.
TP_Get200 ==
    /\ fa_pc = "total" /\ tp_pc = "get"
    /\ requests' = [requests EXCEPT ![0] = @ + 1]
    /\ \E body \in Bodies :
         \/ /\ body = "full"
            /\ \E n \in 0..MaxPages : total_pages' = n
            /\ tp_pc' = "done"
            /\ exc' = exc
         \/ /\ body = "nokey"
            /\ tp_pc' = "raised"
            /\ exc' = "KeyError"
            /\ total_pages' = total_pages
         \/ /\ body = "notjson"
            /\ tp_pc' = "raised"
            /\ exc' = "JSONDecodeError"
            /\ total_pages' = total_pages
    /\ UNCHANGED <<fa_pc, tp_attempt, pg_pc, pg_attempt, pg_body,
                   pg_result, sleeps, delays, doneOrder, ret>>
    /\ UNCHANGED nonFetchVars

\* await asyncio.sleep(...), then the next attempt or, after the last, return 0.
TP_Sleep ==
    /\ fa_pc = "total" /\ tp_pc = "sleep"
    /\ sleeps' = [sleeps EXCEPT ![0] = @ + 1]
    /\ delays' = [delays EXCEPT ![0] = Append(@, Backoff(tp_attempt))]
    /\ IF tp_attempt < MAX_RETRIES
         THEN /\ tp_attempt' = tp_attempt + 1
              /\ tp_pc' = "get"
              /\ total_pages' = total_pages
         ELSE /\ tp_attempt' = tp_attempt
              /\ tp_pc' = "failed"
              /\ total_pages' = 0
    /\ UNCHANGED <<fa_pc, pg_pc, pg_attempt, pg_body, pg_result, requests,
                   doneOrder, ret, exc>>
    /\ UNCHANGED nonFetchVars

\* ---------------------------------------------- fetchers2.py: fetch_page
\* A failed GET without the except clauses: the error leaves fetch_page.
PG_GetFailsUncaught(p) ==
    /\ fa_pc = "gather" /\ pg_pc[p] = "get"
    /\ requests' = [requests EXCEPT ![p] = @ + 1]
    /\ pg_pc' = [pg_pc EXCEPT ![p] = "raised"]
    /\ exc' = "ClientError"
    /\ UNCHANGED <<fa_pc, tp_pc, tp_attempt, total_pages, pg_attempt, pg_body,
                   pg_result, sleeps, delays, doneOrder, ret>>
    /\ UNCHANGED nonFetchVars

\* A failed GET with no backoff after the last attempt: [] is returned at once.
PG_GetFailsNoLastSleep(p) ==
    /\ fa_pc = "gather" /\ pg_pc[p] = "get"
    /\ requests' = [requests EXCEPT ![p] = @ + 1]
    /\ IF pg_attempt[p] < MAX_RETRIES
         THEN /\ pg_pc' = [pg_pc EXCEPT ![p] = "sleep"]
              /\ UNCHANGED <<pg_result, doneOrder>>
         ELSE /\ pg_pc' = [pg_pc EXCEPT ![p] = "failed"]
              /\ pg_result' = [pg_result EXCEPT ![p] = <<>>]
              /\ doneOrder' = Append(doneOrder, p)
    /\ UNCHANGED <<fa_pc, tp_pc, tp_attempt, total_pages, pg_attempt, pg_body,
                   sleeps, delays, ret, exc>>
    /\ UNCHANGED nonFetchVars

\* One GET of base_url?page=p that fails in a way the loop handles: a
\* ClientError (a body of another content type included), a timeout, or a
\* status other than 200.
PG_GetFails(p) ==
    /\ fa_pc = "gather" /\ pg_pc[p] = "get"
    /\ requests' = [requests EXCEPT ![p] = @ + 1]
    /\ pg_pc' = [pg_pc EXCEPT ![p] = "sleep"]
    /\ UNCHANGED <<fa_pc, tp_pc, tp_attempt, total_pages, pg_attempt, pg_body,
                   pg_result, sleeps, delays, doneOrder, ret, exc>>
    /\ UNCHANGED nonFetchVars

PG_Get200(p) ==
    /\ fa_pc = "gather" /\ pg_pc[p] = "get"
    /\ requests' = [requests EXCEPT ![p] = @ + 1]
    /\ \E body \in Bodies :
         \/ /\ body \in {"full", "nokey"}
            /\ pg_pc' = [pg_pc EXCEPT ![p] = "done"]
            /\ pg_body' = [pg_body EXCEPT ![p] = body]
            /\ pg_result' = [pg_result EXCEPT ![p] = ResultsOf(body, p)]
            /\ doneOrder' = Append(doneOrder, p)
            /\ exc' = exc
         \/ /\ body = "notjson"
            /\ pg_pc' = [pg_pc EXCEPT ![p] = "raised"]
            /\ pg_body' = [pg_body EXCEPT ![p] = body]
            /\ exc' = "JSONDecodeError"
            /\ UNCHANGED <<pg_result, doneOrder>>
    /\ UNCHANGED <<fa_pc, tp_pc, tp_attempt, total_pages, pg_attempt, sleeps, delays, ret>>
    /\ UNCHANGED nonFetchVars

\* The backoff with the last failure raised again after the last attempt.
PG_SleepReraises(p) ==
    /\ fa_pc = "gather" /\ pg_pc[p] = "sleep"
    /\ sleeps' = [sleeps EXCEPT ![p] = @ + 1]
    /\ delays' = [delays EXCEPT ![p] = Append(@, Backoff(pg_attempt[p]))]
    /\ IF pg_attempt[p] < MAX_RETRIES
         THEN /\ pg_attempt' = [pg_attempt EXCEPT ![p] = @ + 1]
              /\ pg_pc' = [pg_pc EXCEPT ![p] = "get"]
              /\ exc' = exc
         ELSE /\ pg_attempt' = pg_attempt
              /\ pg_pc' = [pg_pc EXCEPT ![p] = "raised"]
              /\ exc' = "ClientError"
    /\ UNCHANGED <<fa_pc, tp_pc, tp_attempt, total_pages, pg_body, pg_result,
                   requests, doneOrder, ret>>
    /\ UNCHANGED nonFetchVars

\* await asyncio.sleep(...), then the next attempt or, after the last, return [].
PG_Sleep(p) ==
    /\ fa_pc = "gather" /\ pg_pc[p] = "sleep"
    /\ sleeps' = [sleeps EXCEPT ![p] = @ + 1]
    /\ delays' = [delays EXCEPT ![p] = Append(@, Backoff(pg_attempt[p]))]
    /\ IF pg_attempt[p] < MAX_RETRIES
         THEN /\ pg_attempt' = [pg_attempt EXCEPT ![p] = @ + 1]
              /\ pg_pc' = [pg_pc EXCEPT ![p] = "get"]
              /\ UNCHANGED <<pg_result, doneOrder>>
         ELSE /\ pg_attempt' = pg_attempt
              /\ pg_pc' = [pg_pc EXCEPT ![p] = "failed"]
              /\ pg_result' = [pg_result EXCEPT ![p] = <<>>]
              /\ doneOrder' = Append(doneOrder, p)
    /\ UNCHANGED <<fa_pc, tp_pc, tp_attempt, total_pages, pg_body, requests, ret, exc>>
    /\ UNCHANGED nonFetchVars

\* ------------------------------------- fetchers2.py: fetch_all_entities
\* async with ClientSession(); total_pages = await get_total_pages(...)
FA_Call ==
    /\ fa_pc = "idle"
    /\ fa_pc' = "total"
    /\ tp_pc' = "get"
    /\ tp_attempt' = 1
    /\ UNCHANGED <<total_pages, pg_pc, pg_attempt, pg_body, pg_result, requests,
                   sleeps, delays, doneOrder, ret, exc>>
    /\ UNCHANGED nonFetchVars

\* No test for zero pages, and one task more than pages reported.
FA_AfterTotalOneMore ==
    /\ fa_pc = "total" /\ tp_pc \in {"done", "failed"}
    /\ fa_pc' = "gather"
    /\ pg_pc' = [p \in PageIds |->
                   IF p \in PageRange(total_pages + 1) THEN "get" ELSE "none"]
    /\ pg_attempt' = [p \in PageIds |->
                   IF p \in PageRange(total_pages + 1) THEN 1 ELSE 0]
    /\ UNCHANGED <<tp_pc, tp_attempt, total_pages, pg_body, pg_result, requests,
                   sleeps, delays, doneOrder, ret, exc>>
    /\ UNCHANGED nonFetchVars

\* if total_pages == 0: return []; otherwise one fetch_page task per page.
FA_AfterTotal ==
    /\ fa_pc = "total" /\ tp_pc \in {"done", "failed"}
    /\ IF total_pages = 0
         THEN /\ fa_pc' = "returned"
              /\ ret' = <<>>
              /\ UNCHANGED <<pg_pc, pg_attempt>>
         ELSE /\ fa_pc' = "gather"
              /\ pg_pc' = [p \in PageIds |->
                             IF p \in PageRange(total_pages) THEN "get" ELSE "none"]
              /\ pg_attempt' = [p \in PageIds |->
                             IF p \in PageRange(total_pages) THEN 1 ELSE 0]
              /\ ret' = ret
    /\ UNCHANGED <<tp_pc, tp_attempt, total_pages, pg_body, pg_result, requests,
                   sleeps, delays, doneOrder, exc>>
    /\ UNCHANGED nonFetchVars

\* get_total_pages raised: the exception leaves fetch_all_entities.
FA_TotalRaised ==
    /\ fa_pc = "total" /\ tp_pc = "raised"
    /\ fa_pc' = "raised"
    /\ UNCHANGED <<tp_pc, tp_attempt, total_pages, pg_pc, pg_attempt, pg_body,
                   pg_result, requests, sleeps, delays, doneOrder, ret, exc>>
    /\ UNCHANGED nonFetchVars

\* pages = await asyncio.gather(*tasks): results in task (page) order.
GatheredAsCompleted == [i \in 1..Len(doneOrder) |-> pg_result[doneOrder[i]]]
Gathered == [p \in 1..total_pages |-> pg_result[p]]

\* The return as soon as one task has completed.
FA_GatherFirstCompleted ==
    /\ fa_pc = "gather"
    /\ \E p \in PageRange(total_pages) : pg_pc[p] \in {"done", "failed"}
    /\ \A p \in PageRange(total_pages) : pg_pc[p] # "raised"
    /\ ret' = FlattenPages(Gathered)
    /\ fa_pc' = "returned"
    /\ UNCHANGED <<tp_pc, tp_attempt, total_pages, pg_pc, pg_attempt, pg_body,
                   pg_result, requests, sleeps, delays, doneOrder, exc>>
    /\ UNCHANGED nonFetchVars

FA_Gather ==
    /\ fa_pc = "gather"
    /\ \A p \in PageRange(total_pages) : pg_pc[p] \in {"done", "failed"}
    /\ ret' = FlattenPages(Gathered)
    /\ fa_pc' = "returned"
    /\ UNCHANGED <<tp_pc, tp_attempt, total_pages, pg_pc, pg_attempt, pg_body,
                   pg_result, requests, sleeps, delays, doneOrder, exc>>
    /\ UNCHANGED nonFetchVars

\* gather propagates the first exception a task raises.
FA_GatherRaised ==
    /\ fa_pc = "gather"
    /\ \E p \in PageRange(total_pages) : pg_pc[p] = "raised"
    /\ fa_pc' = "raised"
    /\ UNCHANGED <<tp_pc, tp_attempt, total_pages, pg_pc, pg_attempt, pg_body,
                   pg_result, requests, sleeps, delays, doneOrder, ret, exc>>
    /\ UNCHANGED nonFetchVars



\* ------------------------------------------------------------ the storage
TableNames == {"locations", "episodes", "characters", "residents", "episode_characters"}
\* Python's None, which psycopg2 stores as NULL; in the integer column
\* location_id a value is <<id>> and None is <<>>.
None == "None"
NULL == None
NullOf(c) == IF c = "location_id" THEN <<>> ELSE NULL
Ids == 1..MaxId
Names == {"a", "b"}

\* The columns of the tables (projected on the ones the model follows).
TableColumns(table) ==
    IF table = "characters" THEN {"id", "name", "location_id", "created"}
    ELSE {"id", "name", "created"}

\* The rows of a table form a heap; the primary key keeps ids unique.
IdsOf(tbl) == {tbl[i].id : i \in 1..Len(tbl)}
RowsOf(tbl) == {tbl[i] : i \in 1..Len(tbl)}
RowsWithId(tbl, id) == {i \in 1..Len(tbl) : tbl[i].id = id}

\* One row of `values` as the record the INSERT proposes (EXCLUDED).
Excluded(vals, columns) ==
    [c \in {columns[j] : j \in 1..Len(columns)} |->
        vals[CHOOSE j \in 1..Len(columns) : columns[j] = c]]

\* INSERT without a conflict clause on a table without the key.
InsertRowNoConflict(tbl, vals, columns, tcols) ==
    LET new == Excluded(vals, columns)
    IN Append(tbl, [c \in tcols |-> IF c \in DOMAIN new THEN new[c] ELSE NullOf(c)])

\* INSERT ... ON CONFLICT (id) DO NOTHING.
InsertRowDoNothing(tbl, vals, columns, tcols) ==
    LET new == Excluded(vals, columns)
    IN IF RowsWithId(tbl, new.id) # {}
         THEN tbl
         ELSE Append(tbl, [c \in tcols |-> IF c \in DOMAIN new THEN new[c] ELSE NullOf(c)])

\* INSERT INTO table (columns) VALUES (...) ON CONFLICT (id) DO UPDATE SET
\* col = EXCLUDED.col for every listed column but id.
UpsertRow(tbl, vals, columns, tcols) ==
    LET new == Excluded(vals, columns)
        hit == RowsWithId(tbl, new.id)
    IN IF hit # {}
         THEN [i \in 1..Len(tbl) |->
                 IF i \in hit
                   THEN [c \in tcols |->
                           IF c \in DOMAIN new /\ c # "id" THEN new[c] ELSE tbl[i][c]]
                   ELSE tbl[i]]
         ELSE Append(tbl, [c \in tcols |-> IF c \in DOMAIN new THEN new[c] ELSE NullOf(c)])

\* The statements of one page of execute_batch, run in order.
RECURSIVE UpsertPage(_, _, _, _)
UpsertPage(tbl, page, columns, tcols) ==
    IF page = <<>> THEN tbl
    ELSE UpsertPage(UpsertRow(tbl, Head(page), columns, tcols), Tail(page), columns, tcols)

\* values = [[row[col] for col in columns] for row in data]
HasKeyError(data, columns) ==
    \E i \in 1..Len(data) : \E j \in 1..Len(columns) : columns[j] \notin DOMAIN data[i]
ValuesOf(data, columns) ==
    [i \in 1..Len(data) |-> [j \in 1..Len(columns) |-> data[i][columns[j]]]]

\* The next page execute_batch sends: at most page_size rows from bi_sent on.
NextPageLen == IF Len(bi_values) - bi_sent < page_size
                 THEN Len(bi_values) - bi_sent ELSE page_size
NextPage == SubSeq(bi_values, bi_sent + 1, bi_sent + NextPageLen)

\* What the connection reads: its own uncommitted work when a transaction is open.
Visible == IF txn_state = "open" THEN txn_work ELSE db

IdleDb ==
    /\ txn_state = "idle"
    /\ txn_work = db
    /\ bi_pc = "idle"
    /\ bi_table = "none"
    /\ bi_data = <<>>
    /\ bi_columns = <<>>
    /\ bi_values = <<>>
    /\ bi_sent = 0
    /\ bi_before = db
    /\ calls = 0
    /\ after_first = db

\* --------------------------------------------- db_helpers.py: batch_insert
\* The entry without the test for empty data: the cursor block runs anyway.
BI_EnterNoEmptyTest(table, data, columns) ==
    /\ bi_table' = table
    /\ bi_data' = data
    /\ bi_columns' = columns
    /\ bi_before' = db
    /\ bi_sent' = 0
    /\ IF HasKeyError(data, columns)
         THEN /\ bi_pc' = "raised"
              /\ bi_values' = <<>>
              /\ exc' = "KeyError"
         ELSE /\ bi_pc' = "exec"
              /\ bi_values' = ValuesOf(data, columns)
              /\ exc' = exc
    /\ UNCHANGED <<db, txn_state, txn_work>>

\* Entry of batch_insert(conn, table, data, columns) up to the cursor block.
BI_Enter(table, data, columns) ==
    /\ bi_table' = table
    /\ bi_data' = data
    /\ bi_columns' = columns
    /\ bi_before' = db
    /\ bi_sent' = 0
    /\ IF data = <<>>
         THEN /\ bi_pc' = "returned"
              /\ bi_values' = <<>>
              /\ exc' = exc
         ELSE IF HasKeyError(data, columns)
           THEN /\ bi_pc' = "raised"
                /\ bi_values' = <<>>
                /\ exc' = "KeyError"
           ELSE /\ bi_pc' = "exec"
                /\ bi_values' = ValuesOf(data, columns)
                /\ exc' = exc
    /\ UNCHANGED <<db, txn_state, txn_work>>

\* execute_batch sends one page; the statements run in the connection's
\* transaction (psycopg2 opens one at the first statement).
BI_ExecPageAutocommit ==
    /\ bi_pc = "exec"
    /\ txn_state # "aborted"
    /\ LET work == [Visible EXCEPT ![bi_table] =
                       UpsertPage(@, NextPage, bi_columns, TableColumns(bi_table))]
       IN /\ txn_work' = work
          /\ db' = work
    /\ txn_state' = "idle"
    /\ bi_sent' = bi_sent + NextPageLen
    /\ bi_pc' = IF bi_sent + NextPageLen = Len(bi_values) THEN "commit" ELSE "exec"
    /\ UNCHANGED <<bi_table, bi_data, bi_columns, bi_values, bi_before,
                   calls, after_first, exc>>
    /\ UNCHANGED nonDbVars

BI_ExecPage ==
    /\ bi_pc = "exec"
    /\ txn_state # "aborted"
    /\ txn_work' = [Visible EXCEPT ![bi_table] =
                       UpsertPage(@, NextPage, bi_columns, TableColumns(bi_table))]
    /\ txn_state' = "open"
    /\ bi_sent' = bi_sent + NextPageLen
    /\ bi_pc' = IF bi_sent + NextPageLen = Len(bi_values) THEN "commit" ELSE "exec"
    /\ UNCHANGED <<db, bi_table, bi_data, bi_columns, bi_values, bi_before,
                   calls, after_first, exc>>
    /\ UNCHANGED nonDbVars

\* A page fails. When the server rejects a statement (or the connection is
\* lost) the transaction is aborted and its work is gone; when psycopg2 fails
\* before sending the page, the transaction stays as the earlier pages left it.
\* Either way the error leaves batch_insert before conn.commit().
BI_ExecFails ==
    /\ bi_pc = "exec"
    /\ bi_pc' = "raised"
    /\ exc' = "psycopg2.Error"
    /\ \E side \in {"server", "client"} :
         IF side = "server" \/ txn_state = "aborted"
           THEN txn_state' = "aborted" /\ txn_work' = db
           ELSE UNCHANGED <<txn_state, txn_work>>
    /\ UNCHANGED <<db, bi_table, bi_data, bi_columns, bi_values, bi_sent, bi_before,
                   calls, after_first>>
    /\ UNCHANGED nonDbVars

\* batch_insert returning with its statements run and no conn.commit().
BI_ReturnUncommitted ==
    /\ bi_pc = "commit"
    /\ bi_pc' = "returned"
    /\ UNCHANGED <<db, txn_state, txn_work, bi_table, bi_data, bi_columns, bi_values,
                   bi_sent, bi_before, calls, after_first, exc>>
    /\ UNCHANGED nonDbVars

\* conn.commit()
BI_Commit ==
    /\ bi_pc = "commit"
    /\ db' = txn_work
    /\ txn_state' = "idle"
    /\ bi_pc' = "returned"
    /\ UNCHANGED <<txn_work, bi_table, bi_data, bi_columns, bi_values, bi_sent,
                   bi_before, calls, after_first, exc>>
    /\ UNCHANGED nonDbVars

\* conn.commit() fails: the transaction is lost.
BI_CommitFails ==
    /\ bi_pc = "commit"
    /\ bi_pc' = "raised"
    /\ exc' = "psycopg2.Error"
    /\ txn_state' = "aborted"
    /\ txn_work' = db
    /\ UNCHANGED <<db, bi_table, bi_data, bi_columns, bi_values, bi_sent, bi_before,
                   calls, after_first>>
    /\ UNCHANGED nonDbVars

\* ------------------------------------------- callers of batch_insert
\* Entities as a caller hands them over: dicts with the columns' keys; one
\* dict lacks the key name.
EntityDicts ==
    [id : Ids, name : Names, created : {"now"}] \cup {[id |-> 1, created |-> "now"]}
RECURSIVE SeqsUpTo(_, _)
SeqsUpTo(S, n) ==
    IF n = 0 THEN {<<>>}
    ELSE LET shorter == SeqsUpTo(S, n - 1)
         IN shorter \cup {Append(q, x) : q \in shorter, x \in S}
DataLists == SeqsUpTo(EntityDicts, MaxRows)
ColumnLists == {<<"id", "name", "created">>, <<"id", "name">>}

\* A caller calls batch_insert on the table locations.
DB_Call ==
    /\ bi_pc = "idle" /\ calls = 0
    /\ calls' = 1
    /\ \E data \in DataLists, columns \in ColumnLists :
         BI_Enter("locations", data, columns)
    /\ after_first' = after_first
    /\ UNCHANGED nonDbVars

\* The caller calls batch_insert again with the same arguments.
DB_CallAgain ==
    /\ bi_pc = "returned" /\ calls = 1
    /\ calls' = 2
    /\ BI_Enter(bi_table, bi_data, bi_columns)
    /\ after_first' = db
    /\ UNCHANGED nonDbVars

\* The tables a call can find: any ids, any names, rows written earlier.
RECURSIVE AscendingRows(_, _)
AscendingRows(S, nm) ==
    IF S = {} THEN <<>>
    ELSE LET m == CHOOSE x \in S : \A y \in S : x <= y
         IN <<[id |-> m, name |-> nm[m], created |-> "old"]>>
              \o AscendingRows(S \ {m}, nm)
InitialTables == {AscendingRows(S, nm) : S \in SUBSET Ids, nm \in [Ids -> Names]}

\* ------------------------------------------- rickandmorty/fetchers.py
\* The fetcher main.py imports: one attempt per request, nothing caught.

\* get_total_pages: the GET raises, or data["info"]["pages"] is read from the
\* response whatever its status.
F1_TP_Get ==
    /\ fa_pc = "total" /\ tp_pc = "get"
    /\ requests' = [requests EXCEPT ![0] = @ + 1]
    /\ \/ \E e \in {"ClientError", "TimeoutError"} :
            /\ tp_pc' = "raised"
            /\ exc' = e
            /\ total_pages' = total_pages
       \/ \E status \in {"200", "non200"}, body \in Bodies :
            \/ /\ body = "full"
               /\ \E n \in 0..MaxPages : total_pages' = n
               /\ tp_pc' = "done"
               /\ exc' = exc
            \/ /\ body = "nokey"
               /\ tp_pc' = "raised"
               /\ exc' = "KeyError"
               /\ total_pages' = total_pages
            \/ /\ body = "notjson"
               /\ tp_pc' = "raised"
               /\ exc' = "JSONDecodeError"
               /\ total_pages' = total_pages
    /\ UNCHANGED <<fa_pc, tp_attempt, pg_pc, pg_attempt, pg_body,
                   pg_result, sleeps, delays, doneOrder, ret>>
    /\ UNCHANGED nonFetchVars

\* fetch_page: the GET raises, a status other than 200 gives [], a 200
\* response gives data.get("results", []) or json() raises.
F1_PG_Get(p) ==
    /\ fa_pc = "gather" /\ pg_pc[p] = "get"
    /\ requests' = [requests EXCEPT ![p] = @ + 1]
    /\ \/ \E e \in {"ClientError", "TimeoutError"} :
            /\ pg_pc' = [pg_pc EXCEPT ![p] = "raised"]
            /\ exc' = e
            /\ UNCHANGED <<pg_body, pg_result, doneOrder>>
       \/ /\ pg_pc' = [pg_pc EXCEPT ![p] = "failed"]
          /\ pg_result' = [pg_result EXCEPT ![p] = <<>>]
          /\ doneOrder' = Append(doneOrder, p)
          /\ UNCHANGED <<pg_body, exc>>
       \/ \E body \in Bodies :
            \/ /\ body \in {"full", "nokey"}
               /\ pg_pc' = [pg_pc EXCEPT ![p] = "done"]
               /\ pg_body' = [pg_body EXCEPT ![p] = body]
               /\ pg_result' = [pg_result EXCEPT ![p] = ResultsOf(body, p)]
               /\ doneOrder' = Append(doneOrder, p)
               /\ exc' = exc
            \/ /\ body = "notjson"
               /\ pg_pc' = [pg_pc EXCEPT ![p] = "raised"]
               /\ pg_body' = [pg_body EXCEPT ![p] = body]
               /\ exc' = "JSONDecodeError"
               /\ UNCHANGED <<pg_result, doneOrder>>
    /\ UNCHANGED <<fa_pc, tp_pc, tp_attempt, total_pages, pg_attempt, sleeps, delays, ret>>
    /\ UNCHANGED nonFetchVars

\* fetch_all_entities: tasks for range(1, total_pages + 1), no test for zero.
F1_FA_AfterTotal ==
    /\ fa_pc = "total" /\ tp_pc = "done"
    /\ fa_pc' = "gather"
    /\ pg_pc' = [p \in PageIds |->
                   IF p \in PageRange(total_pages) THEN "get" ELSE "none"]
    /\ pg_attempt' = [p \in PageIds |->
                   IF p \in PageRange(total_pages) THEN 1 ELSE 0]
    /\ UNCHANGED <<tp_pc, tp_attempt, total_pages, pg_body, pg_result, requests,
                   sleeps, delays, doneOrder, ret, exc>>
    /\ UNCHANGED nonFetchVars

\* The lines after the tasks are the ones of fetchers2.py.
F1_FA_TotalRaised == FA_TotalRaised
F1_FA_Gather == FA_Gather
F1_FA_GatherRaised == FA_GatherRaised

\* ------------------------------------------------ what the API serves
\* A str is its characters; a field of a raw record is a list, a str or None.
PyList(items) == [type |-> "list", items |-> items]
PyStr(chars) == [type |-> "str", chars |-> chars]
PyNone == [type |-> "None"]
PyInt(n) == [type |-> "int", value |-> n]

Digits == <<"0", "1", "2", "3", "4", "5", "6", "7", "8", "9">>
IsDigit(ch) == \E d \in 1..10 : Digits[d] = ch
DigitValue(ch) == (CHOOSE d \in 1..10 : Digits[d] = ch) - 1

\* ".../character/<n>" for the ids the model has (two digits), one with a
\* trailing slash, and ".../character/abc".
CharacterUrl(n) ==
    <<"c", "/", Digits[(n \div 10) + 1], Digits[(n % 10) + 1]>>
MalformedUrl == <<"c", "/", "a", "b", "c">>

LocationName(id) == IF id % 10 = 1 THEN "Earth" ELSE "Mars"
CharacterLocation(id) == IF id \div 10 = 1 THEN "Earth" ELSE "Citadel"

\* The reference field (residents, characters) of the raw record id.
ReferenceField(id) ==
    CASE api = "urls" -> PyList(<<CharacterUrl(11), CharacterUrl(12) \o <<"/">> >>)
      [] api = "malformed" ->
            IF id % 10 = 2 THEN PyList(<<CharacterUrl(11), MalformedUrl>>)
            ELSE PyList(<<CharacterUrl(11)>>)
      [] api = "empty" -> PyList(<<>>)
      [] api = "null" -> PyNone
ApiContents == {"urls", "malformed", "empty", "null"}

RawCharacter(id) ==
    [id |-> id, name |-> "ch",
     origin |-> [name |-> "Earth"],
     location |-> [name |-> CharacterLocation(id)]]
RawLocation(id) == [id |-> id, name |-> LocationName(id), residents |-> ReferenceField(id)]
RawEpisode(id) == [id |-> id, name |-> "ep", characters |-> ReferenceField(id)]

\* ------------------------------------------------------- extractors.py
\* d.get(key) / d.get(key, default)
Get(d, key, default) == IF key \in DOMAIN d THEN d[key] ELSE default

\* char.get(key, {}).get("name"): the default {} stands only for a missing key;
\* a key that is there with the value null gives None, and None has no get.
NestedRaises(char, key) == key \in DOMAIN char /\ char[key] = PyNone
NestedName(char, key) == Get(Get(char, key, <<>>), "name", None)

\* extract_character_info raises AttributeError on this record.
ExtractCharacterRaises(char) ==
    NestedRaises(char, "origin") \/ NestedRaises(char, "location")

extract_character_info(char) ==
    [id |-> Get(char, "id", PyNone),
     name |-> Get(char, "name", None),
     origin |-> NestedName(char, "origin"),
     location |-> NestedName(char, "location"),
     created |-> "now"]

extract_location_info(loc) ==
    [id |-> Get(loc, "id", PyNone),
     name |-> Get(loc, "name", None),
     residents |-> Get(loc, "residents", PyNone),
     created |-> "now"]

extract_episode_info(ep) ==
    [id |-> Get(ep, "id", PyNone),
     name |-> Get(ep, "name", None),
     characters |-> Get(ep, "characters", PyNone),
     created |-> "now"]

\* d[key] = value on a dict: the key is added, or its value replaced.
SetItem(d, key, value) ==
    [k \in DOMAIN d \cup {key} |-> IF k = key THEN value ELSE d[k]]

\* A lookup that keeps the first id of a name: the items set from the end of
\* the list backwards.
RECURSIVE BuildLookupFirstWins(_)
BuildLookupFirstWins(locs) ==
    IF locs = <<>> THEN <<>>
    ELSE SetItem(BuildLookupFirstWins(Tail(locs)), Head(locs).name, Head(locs).id)

\* {loc["name"]: loc["id"] for loc in locations}: the items are set in the
\* order of the list.
RECURSIVE build_location_lookup(_)
build_location_lookup(locs) ==
    IF locs = <<>> THEN <<>>
    ELSE LET last == locs[Len(locs)]
         IN SetItem(build_location_lookup(SubSeq(locs, 1, Len(locs) - 1)),
                    last.name, last.id)

\* s.strip(chars): leading and trailing characters of the set removed.
RECURSIVE LStrip(_, _)
LStrip(s, chars) ==
    IF s # <<>> /\ Head(s) \in chars THEN LStrip(Tail(s), chars) ELSE s
RECURSIVE RStrip(_, _)
RStrip(s, chars) ==
    IF s # <<>> /\ s[Len(s)] \in chars THEN RStrip(SubSeq(s, 1, Len(s) - 1), chars) ELSE s
\* s.split(sep): the pieces between the separators, one piece at least.
RECURSIVE Split(_, _)
Split(s, sep) ==
    IF \A i \in 1..Len(s) : s[i] # sep THEN <<s>>
    ELSE LET k == CHOOSE i \in 1..Len(s) :
                     s[i] = sep /\ \A j \in 1..(i - 1) : s[j] # sep
         IN <<SubSeq(s, 1, k - 1)>> \o Split(SubSeq(s, k + 1, Len(s)), sep)

parse_pg_array(pg_array) ==
    IF pg_array.type = "list" THEN pg_array.items
    ELSE IF pg_array.type = "str"
      THEN Split(RStrip(LStrip(pg_array.chars, {"{", "}"}), {"{", "}"}), ",")
      ELSE <<>>

\* ------------------------------------- db_helpers.py: insert_relations
\* url.rstrip('/').split('/')[-1]
TrailingSegment(url) ==
    LET parts == Split(RStrip(url, {"/"}), "/") IN parts[Len(parts)]
\* int(text) of decimal digits; anything else is a ValueError.
IsInt(text) == text # <<>> /\ \A i \in 1..Len(text) : IsDigit(text[i])
RECURSIVE IntOf(_)
IntOf(text) ==
    IF text = <<>> THEN 0
    ELSE IntOf(SubSeq(text, 1, Len(text) - 1)) * 10 + DigitValue(text[Len(text)])

RelationData(parent_id, urls) ==
    [i \in 1..Len(urls) |->
        [parent |-> parent_id, child |-> IntOf(TrailingSegment(urls[i])), url |-> urls[i]]]

\* A uniqueness constraint over all three columns of a relationship table.
RelationKeyWithUrl == {"parent", "child", "url"}

\* The uniqueness constraint of a relationship table: (parent_id, child_id).
\* The tables' DDL is not among the sources; the constraint is the one the
\* design document gives the outbound storage.
RelationKey == {"parent", "child"}

\* The rows of tbl a new row r conflicts with.
Conflicting(tbl, r) == {i \in 1..Len(tbl) : \A c \in RelationKey : tbl[i][c] = r[c]}

\* INSERT ... ON CONFLICT (...) DO UPDATE SET url = EXCLUDED.url, the rows in order.
RECURSIVE InsertOrUpdate(_, _)
InsertOrUpdate(tbl, rows) ==
    IF rows = <<>> THEN tbl
    ELSE LET r == Head(rows)
             hit == Conflicting(tbl, r)
         IN InsertOrUpdate(IF hit # {}
                             THEN [i \in 1..Len(tbl) |-> IF i \in hit THEN r ELSE tbl[i]]
                             ELSE Append(tbl, r),
                           Tail(rows))

\* INSERT ... ON CONFLICT DO NOTHING, the rows in order: a row that violates
\* the table's uniqueness constraint is skipped.
RECURSIVE InsertIfAbsent(_, _)
InsertIfAbsent(tbl, rows) ==
    IF rows = <<>> THEN tbl
    ELSE LET r == Head(rows)
         IN InsertIfAbsent(IF Conflicting(tbl, r) # {} THEN tbl ELSE Append(tbl, r),
                           Tail(rows))

\* insert_relations returns: nothing to do, or the rows inserted and committed.
IR_Returns(table, parent_id, related_urls) ==
    LET urls == parse_pg_array(related_urls)
    IN IF urls = <<>>
         THEN UNCHANGED <<db, txn_state, txn_work>>
         ELSE /\ \A i \in 1..Len(urls) : IsInt(TrailingSegment(urls[i]))
              /\ txn_state # "aborted"
              /\ LET work == [Visible EXCEPT ![table] =
                                 InsertIfAbsent(@, RelationData(parent_id, urls))]
                 IN db' = work /\ txn_work' = work
              /\ txn_state' = "idle"

\* insert_relations raises: int() on a segment that is no number, or the
\* storage fails before the commit is through.
IR_Raises(table, parent_id, related_urls) ==
    LET urls == parse_pg_array(related_urls)
    IN /\ urls # <<>>
       /\ IF \E i \in 1..Len(urls) : ~IsInt(TrailingSegment(urls[i]))
            THEN /\ exc' = "ValueError"
                 /\ UNCHANGED <<db, txn_state, txn_work>>
            ELSE /\ exc' = "psycopg2.Error"
                 /\ txn_state' = "aborted"
                 /\ txn_work' = db
                 /\ db' = db

\* ------------------------------------------------ rickandmorty/main.py
FetchSteps == {"fetch_characters", "fetch_locations", "fetch_episodes"}
LocationColumns == <<"id", "name", "created">>
EpisodeColumns == <<"id", "name", "created">>
CharacterColumns == <<"id", "name", "location_id", "created">>

RawOf(kind, ids) ==
    [i \in 1..Len(ids) |->
        CASE kind = "fetch_characters" -> RawCharacter(ids[i])
          [] kind = "fetch_locations" -> RawLocation(ids[i])
          [] kind = "fetch_episodes" -> RawEpisode(ids[i])]

Raise(at) ==
    /\ main_pc' = "raised"
    /\ raised_at' = at

\* x_raw = await fetch_all_entities(API_ENDPOINTS[x]): the call.
M_CallFetch ==
    /\ main_pc \in FetchSteps /\ fa_pc = "idle"
    /\ fa_pc' = "total"
    /\ tp_pc' = "get"
    /\ tp_attempt' = 1
    /\ UNCHANGED <<total_pages, pg_pc, pg_attempt, pg_body, pg_result, requests,
                   sleeps, delays, doneOrder, ret, exc>>
    /\ UNCHANGED <<dbVars, mainVars>>

\* fetch_all_entities returned: the list is bound and main goes on.
M_FetchReturned ==
    /\ main_pc \in FetchSteps /\ fa_pc = "returned"
    /\ characters_raw' = IF main_pc = "fetch_characters"
                           THEN RawOf(main_pc, ret) ELSE characters_raw
    /\ locations_raw' = IF main_pc = "fetch_locations"
                           THEN RawOf(main_pc, ret) ELSE locations_raw
    /\ episodes_raw' = IF main_pc = "fetch_episodes"
                           THEN RawOf(main_pc, ret) ELSE episodes_raw
    /\ main_pc' = CASE main_pc = "fetch_characters" -> "fetch_locations"
                    [] main_pc = "fetch_locations" -> "fetch_episodes"
                    [] main_pc = "fetch_episodes" -> "normalize"
    /\ fa_pc' = "idle"
    /\ tp_pc' = "idle"
    /\ tp_attempt' = 0
    /\ total_pages' = 0
    /\ pg_pc' = [p \in PageIds |-> "none"]
    /\ pg_attempt' = [p \in PageIds |-> 0]
    /\ pg_body' = [p \in PageIds |-> "none"]
    /\ pg_result' = [p \in PageIds |-> <<>>]
    /\ requests' = [u \in Urls |-> 0]
    /\ sleeps' = [u \in Urls |-> 0]
    /\ delays' = [u \in Urls |-> <<>>]
    /\ doneOrder' = <<>>
    /\ ret' = <<>>
    /\ UNCHANGED <<raised_at, api, characters, locations, episodes, loc_lookup, conn, loop_i, exc>>
    /\ UNCHANGED dbVars

\* fetch_all_entities raised: nothing in main catches it.
M_FetchRaised ==
    /\ main_pc \in FetchSteps /\ fa_pc = "raised"
    /\ Raise(main_pc)
    /\ UNCHANGED <<api, characters_raw, locations_raw, episodes_raw, characters,
                   locations, episodes, loc_lookup, conn, loop_i, exc>>
    /\ UNCHANGED <<fetchVars, dbVars>>

\* The three list comprehensions over the extractors; the first one raises
\* when extract_character_info raises on one of its records.
M_Normalize ==
    /\ main_pc = "normalize"
    /\ IF \E i \in 1..Len(characters_raw) : ExtractCharacterRaises(characters_raw[i])
         THEN /\ Raise(main_pc)
              /\ exc' = "AttributeError"
              /\ UNCHANGED <<characters, locations, episodes>>
         ELSE /\ characters' = [i \in 1..Len(characters_raw) |->
                                   extract_character_info(characters_raw[i])]
              /\ locations' = [i \in 1..Len(locations_raw) |->
                                   extract_location_info(locations_raw[i])]
              /\ episodes' = [i \in 1..Len(episodes_raw) |->
                                   extract_episode_info(episodes_raw[i])]
              /\ main_pc' = "connect"
              /\ UNCHANGED <<raised_at, exc>>
    /\ UNCHANGED <<api, characters_raw, locations_raw, episodes_raw,
                   loc_lookup, conn, loop_i>>
    /\ UNCHANGED <<fetchVars, dbVars>>

\* conn = get_db_connection(): psycopg2.connect connects or raises.
M_Connect ==
    /\ main_pc = "connect"
    /\ \/ /\ conn' = "open"
          /\ main_pc' = "insert_locations"
          /\ UNCHANGED <<raised_at, exc>>
       \/ /\ Raise(main_pc)
          /\ exc' = "psycopg2.Error"
          /\ conn' = conn
    /\ UNCHANGED <<api, characters_raw, locations_raw, episodes_raw, characters,
                   locations, episodes, loc_lookup, loop_i>>
    /\ UNCHANGED <<fetchVars, dbVars>>

\* The foreign key looked up by the character's origin.
WithOriginId(chars, lookup) ==
    [i \in 1..Len(chars) |->
        [k \in DOMAIN chars[i] \cup {"location_id"} |->
            IF k = "location_id"
              THEN IF chars[i].origin \in DOMAIN lookup
                     THEN <<lookup[chars[i].origin]>> ELSE <<>>
              ELSE chars[i][k]]]

\* The foreign key set to the character's own id.
WithOwnId(chars, lookup) ==
    [i \in 1..Len(chars) |->
        [k \in DOMAIN chars[i] \cup {"location_id"} |->
            IF k = "location_id" THEN <<chars[i].id>> ELSE chars[i][k]]]

\* insert_characters_with_fk: char["location_id"] = lookup.get(char.get("location"))
WithLocationId(chars, lookup) ==
    [i \in 1..Len(chars) |->
        [k \in DOMAIN chars[i] \cup {"location_id"} |->
            IF k = "location_id"
              THEN IF chars[i].location \in DOMAIN lookup
                     THEN <<lookup[chars[i].location]>> ELSE <<>>
              ELSE chars[i][k]]]

\* The three entity persist calls of main: batch_insert is entered.
M_CallBatchInsert ==
    /\ main_pc \in {"insert_locations", "insert_episodes", "insert_characters"}
    /\ bi_pc = "idle"
    /\ CASE main_pc = "insert_locations" ->
              /\ BI_Enter("locations", locations, LocationColumns)
              /\ characters' = characters
         [] main_pc = "insert_episodes" ->
              /\ BI_Enter("episodes", episodes, EpisodeColumns)
              /\ characters' = characters
         [] main_pc = "insert_characters" ->
              /\ characters' = WithLocationId(characters, loc_lookup)
              /\ BI_Enter("characters", characters', CharacterColumns)
    /\ UNCHANGED <<main_pc, raised_at, api, characters_raw, locations_raw, episodes_raw,
                   locations, episodes, loc_lookup, conn, loop_i, calls, after_first>>
    /\ UNCHANGED fetchVars

\* main with the characters persisted right after the locations, before the
\* episodes.
M_BatchReturnedCharactersFirst ==
    /\ main_pc \in {"insert_locations", "insert_episodes", "insert_characters"}
    /\ bi_pc = "returned"
    /\ bi_pc' = "idle"
    /\ loc_lookup' = IF main_pc = "insert_locations"
                       THEN build_location_lookup(locations) ELSE loc_lookup
    /\ main_pc' = CASE main_pc = "insert_locations" -> "insert_characters"
                    [] main_pc = "insert_characters" -> "insert_episodes"
                    [] main_pc = "insert_episodes" -> "residents"
    /\ UNCHANGED <<db, txn_state, txn_work, bi_table, bi_data, bi_columns, bi_values,
                   bi_sent, bi_before, calls, after_first>>
    /\ UNCHANGED <<raised_at, api, characters_raw, locations_raw, episodes_raw,
                   characters, locations, episodes, conn, loop_i, exc>>
    /\ UNCHANGED fetchVars

\* batch_insert returned: the next statement of main. After the episodes
\* that is loc_lookup = build_location_lookup(locations).
M_BatchReturned ==
    /\ main_pc \in {"insert_locations", "insert_episodes", "insert_characters"}
    /\ bi_pc = "returned"
    /\ bi_pc' = "idle"
    /\ loc_lookup' = IF main_pc = "insert_episodes"
                       THEN build_location_lookup(locations) ELSE loc_lookup
    /\ main_pc' = CASE main_pc = "insert_locations" -> "insert_episodes"
                    [] main_pc = "insert_episodes" -> "insert_characters"
                    [] main_pc = "insert_characters" -> "residents"
    /\ UNCHANGED <<db, txn_state, txn_work, bi_table, bi_data, bi_columns, bi_values,
                   bi_sent, bi_before, calls, after_first>>
    /\ UNCHANGED <<raised_at, api, characters_raw, locations_raw, episodes_raw,
                   characters, locations, episodes, conn, loop_i, exc>>
    /\ UNCHANGED fetchVars

\* main with the persist call in a try block that logs the error and goes on.
M_BatchRaisedSwallowed ==
    /\ main_pc \in {"insert_locations", "insert_episodes", "insert_characters"}
    /\ bi_pc = "raised"
    /\ bi_pc' = "idle"
    /\ exc' = "none"
    /\ loc_lookup' = IF main_pc = "insert_episodes"
                       THEN build_location_lookup(locations) ELSE loc_lookup
    /\ main_pc' = CASE main_pc = "insert_locations" -> "insert_episodes"
                    [] main_pc = "insert_episodes" -> "insert_characters"
                    [] main_pc = "insert_characters" -> "residents"
    /\ UNCHANGED <<db, txn_state, txn_work, bi_table, bi_data, bi_columns, bi_values,
                   bi_sent, bi_before, calls, after_first>>
    /\ UNCHANGED <<raised_at, api, characters_raw, locations_raw, episodes_raw,
                   characters, locations, episodes, conn, loop_i>>
    /\ UNCHANGED fetchVars

\* batch_insert raised: nothing in main catches it.
M_BatchRaised ==
    /\ main_pc \in {"insert_locations", "insert_episodes", "insert_characters"}
    /\ bi_pc = "raised"
    /\ Raise(main_pc)
    /\ UNCHANGED <<api, characters_raw, locations_raw, episodes_raw, characters,
                   locations, episodes, loc_lookup, conn, loop_i, exc>>
    /\ UNCHANGED <<fetchVars, dbVars>>

\* One turn of a relationship loop: insert_relations for the next parent.
M_InsertRelations ==
    /\ main_pc \in {"residents", "episode_characters"}
    /\ LET parents == IF main_pc = "residents" THEN locations ELSE episodes
           field == IF main_pc = "residents" THEN "residents" ELSE "characters"
       IN /\ loop_i < Len(parents)
          /\ LET parent == parents[loop_i + 1]
                 \* loc.get("residents", "{}") and ep.get("characters", [])
                 default == IF main_pc = "residents"
                              THEN PyStr(<<"{", "}">>) ELSE PyList(<<>>)
                 related_urls == Get(parent, field, default)
             IN \/ /\ IR_Returns(main_pc, parent.id, related_urls)
                   /\ loop_i' = loop_i + 1
                   /\ UNCHANGED <<main_pc, raised_at, exc>>
                \/ /\ IR_Raises(main_pc, parent.id, related_urls)
                   /\ Raise(main_pc)
                   /\ loop_i' = loop_i
    /\ UNCHANGED <<bi_pc, bi_table, bi_data, bi_columns, bi_values, bi_sent,
                   bi_before, calls, after_first>>
    /\ UNCHANGED <<api, characters_raw, locations_raw, episodes_raw, characters,
                   locations, episodes, loc_lookup, conn>>
    /\ UNCHANGED fetchVars

\* A relationship loop is through: the log line, then the next statement.
M_RelationsDone ==
    /\ main_pc \in {"residents", "episode_characters"}
    /\ loop_i = Len(IF main_pc = "residents" THEN locations ELSE episodes)
    /\ main_pc' = IF main_pc = "residents" THEN "episode_characters" ELSE "close"
    /\ loop_i' = 0
    /\ UNCHANGED <<raised_at, api, characters_raw, locations_raw, episodes_raw,
                   characters, locations, episodes, loc_lookup, conn, exc>>
    /\ UNCHANGED <<fetchVars, dbVars>>

\* conn.close(), the CSV backups and the final log line.
M_Finish ==
    /\ main_pc = "close"
    /\ conn' = "closed"
    /\ main_pc' = "done"
    /\ UNCHANGED <<raised_at, api, characters_raw, locations_raw, episodes_raw,
                   characters, locations, episodes, loc_lookup, loop_i, exc>>
    /\ UNCHANGED <<fetchVars, dbVars>>

IdleMain ==
    /\ main_pc = "idle"
    /\ raised_at = "none"
    /\ api = "urls"
    /\ characters_raw = <<>> /\ locations_raw = <<>> /\ episodes_raw = <<>>
    /\ characters = <<>> /\ locations = <<>> /\ episodes = <<>>
    /\ loc_lookup = <<>>
    /\ conn = "none"
    /\ loop_i = 0

FetchNext ==
    \/ FA_Call
    \/ TP_GetFails
    \/ TP_Get200
    \/ TP_Sleep
    \/ FA_AfterTotal
    \/ FA_TotalRaised
    \/ \E p \in PageIds : PG_GetFails(p)
    \/ \E p \in PageIds : PG_Get200(p)
    \/ \E p \in PageIds : PG_Sleep(p)
    \/ FA_Gather
    \/ FA_GatherRaised

EmptyDb == db = [t \in TableNames |-> <<>>]

FetchInit == IdleFetch /\ EmptyDb /\ IdleDb /\ IdleMain

SpecFetch == FetchInit /\ [][FetchNext]_vars

\* The event loop runs every coroutine that can go on, and every GET that was
\* issued completes (with a response, an error or a timeout): the steps of
\* fetch_all_entities, of get_total_pages and of each page task are taken
\* when they stay possible.
FetchFairness ==
    /\ WF_vars(FA_Call \/ FA_AfterTotal \/ FA_TotalRaised \/ FA_Gather \/ FA_GatherRaised)
    /\ WF_vars(TP_GetFails \/ TP_Get200 \/ TP_Sleep)
    /\ \A p \in PageIds : WF_vars(PG_GetFails(p) \/ PG_Get200(p) \/ PG_Sleep(p))

SpecFetchLive == FetchInit /\ [][FetchNext]_vars /\ FetchFairness

DbNext ==
    \/ DB_Call
    \/ DB_CallAgain
    \/ BI_ExecPage
    \/ BI_ExecFails
    \/ BI_Commit
    \/ BI_CommitFails

DbInit ==
    /\ IdleFetch
    /\ \E tbl \in InitialTables :
         db = [t \in TableNames |-> IF t = "locations" THEN tbl ELSE <<>>]
    /\ IdleDb
    /\ IdleMain

SpecDb == DbInit /\ [][DbNext]_vars

MainNext ==
    \/ M_CallFetch
    \/ F1_TP_Get
    \/ F1_FA_AfterTotal
    \/ F1_FA_TotalRaised
    \/ \E p \in PageIds : F1_PG_Get(p)
    \/ F1_FA_Gather
    \/ F1_FA_GatherRaised
    \/ M_FetchReturned
    \/ M_FetchRaised
    \/ M_Normalize
    \/ M_Connect
    \/ M_CallBatchInsert
    \/ BI_ExecPage
    \/ BI_ExecFails
    \/ BI_Commit
    \/ BI_CommitFails
    \/ M_BatchReturned
    \/ M_BatchRaised
    \/ M_InsertRelations
    \/ M_RelationsDone
    \/ M_Finish

MainInit ==
    /\ IdleFetch
    /\ EmptyDb
    /\ IdleDb
    /\ main_pc = "fetch_characters"
    /\ raised_at = "none"
    /\ api \in ApiContents
    /\ characters_raw = <<>> /\ locations_raw = <<>> /\ episodes_raw = <<>>
    /\ characters = <<>> /\ locations = <<>> /\ episodes = <<>>
    /\ loc_lookup = <<>>
    /\ conn = "none"
    /\ loop_i = 0

SpecMain == MainInit /\ [][MainNext]_vars

\* ------------------------------------- main.py from line 22: what is fetched
\* The raw records the three fetches can have bound: any ids, names and
\* reference fields a JSON body can carry.
U11 == CharacterUrl(11)
U12 == CharacterUrl(12)
BracedList == <<"{">> \o U11 \o <<",">> \o U12 \o <<"}">>
PyOther == [type |-> "int"]

\* Lists of URLs: two children, one URL twice, a child's URL in another
\* spelling, a URL with no number.
UrlLists ==
    {PyList(<<U11, U12>>), PyList(<<U11, U11>>),
     PyList(<<U11 \o <<"/">> >>), PyList(<<U11, MalformedUrl>>)}
\* The other values a reference field can have: no URLs, None, neither list
\* nor str, and the strings of a TEXT[] column.
OtherReferences ==
    {PyList(<<>>), PyNone, PyOther, PyStr(<<>>), PyStr(<<"{", "}">>), PyStr(BracedList)}

ParentIds == {1, 2}
RawLocationsWithUrls ==
    [id : ParentIds, name : {"Earth"}, residents : UrlLists]
RawLocationsWithReferences ==
    [id : {1}, name : {"Earth"}, residents : UrlLists \cup OtherReferences]
RawEpisodesWithReferences ==
    [id : {1}, name : {"ep"},
     characters : {PyList(<<U11>>), PyList(<<U12, MalformedUrl>>), PyNone}]

RawLocationsWithNames ==
    [id : ParentIds, name : {"Earth", "Mars"}, residents : {PyList(<<U11>>)}]
RawCharactersWithLocations ==
    {[id |-> i, name |-> "ch", origin |-> [name |-> "Earth"], location |-> l] :
        i \in {11, 12},
        l \in {[name |-> "Earth"], [name |-> "Citadel"], [url |-> "u"]}}

PipelineInit ==
    /\ IdleFetch
    /\ EmptyDb
    /\ IdleDb
    /\ main_pc = "normalize"
    /\ raised_at = "none"
    /\ api = "urls"
    /\ \/ /\ locations_raw \in SeqsUpTo(RawLocationsWithUrls, MaxEntities)
          /\ episodes_raw \in SeqsUpTo(RawEpisodesWithReferences, MaxEpisodes)
          /\ characters_raw = <<RawCharacter(11)>>
       \/ /\ \E first \in RawLocationsWithReferences :
                locations_raw \in {<<first>>, <<first, RawLocation(12)>>}
          /\ episodes_raw = <<>>
          /\ characters_raw = <<RawCharacter(11)>>
       \/ /\ locations_raw \in SeqsUpTo(RawLocationsWithNames, MaxEntities)
          /\ characters_raw \in SeqsUpTo(RawCharactersWithLocations, MaxEntities)
          /\ episodes_raw = <<>>
    /\ characters = <<>> /\ locations = <<>> /\ episodes = <<>>
    /\ loc_lookup = <<>>
    /\ conn = "none"
    /\ loop_i = 0

PipelineNext ==
    \/ M_Normalize
    \/ M_Connect
    \/ M_CallBatchInsert
    \/ BI_ExecPage
    \/ BI_ExecFails
    \/ BI_Commit
    \/ BI_CommitFails
    \/ M_BatchReturned
    \/ M_BatchRaised
    \/ M_InsertRelations
    \/ M_RelationsDone
    \/ M_Finish

SpecPipeline == PipelineInit /\ [][PipelineNext]_vars

\* ------------------------------- main.py lines 22-24: what the API can serve
\* A field of a raw record is absent, null, or there: a JSON object for origin
\* and location (with a name, with a null name, without a name), a list for
\* the reference fields.
ScalarShapes == {"absent", "null", "value"}
NestedShapes == {"absent", "null", "named", "nullname", "noname"}

WithField(d, key, shape, value) ==
    CASE shape = "absent" -> d
      [] shape = "null" -> SetItem(d, key, None)
      [] OTHER -> SetItem(d, key, value)

NestedValue(shape) ==
    CASE shape = "named" -> [name |-> "Earth"]
      [] shape = "nullname" -> [name |-> None]
      [] shape = "noname" -> [url |-> "u"]
      [] OTHER -> PyNone

WithNested(d, key, shape) ==
    IF shape = "absent" THEN d ELSE SetItem(d, key, NestedValue(shape))

WithReferences(d, key, shape) ==
    CASE shape = "absent" -> d
      [] shape = "null" -> SetItem(d, key, PyNone)
      [] OTHER -> SetItem(d, key, PyList(<<U11>>))

\* The id of a raw record: absent, null, or an integer.
WithId(d, shape) ==
    CASE shape = "absent" -> d
      [] shape = "null" -> SetItem(d, "id", PyNone)
      [] OTHER -> SetItem(d, "id", PyInt(1))

RawCharacterOf(id, name, origin, location) ==
    WithNested(WithNested(WithField(WithId(<<>>, id), "name", name, "ch"),
                          "origin", origin),
               "location", location)
RawParentOf(id, name, field, references) ==
    WithReferences(WithField(WithId(<<>>, id), "name", name, "Earth"),
                   field, references)

NormalizeInit ==
    /\ IdleFetch
    /\ EmptyDb
    /\ IdleDb
    /\ main_pc = "normalize"
    /\ raised_at = "none"
    /\ api = "urls"
    /\ \/ /\ \E id, name \in ScalarShapes, origin, location \in NestedShapes :
                characters_raw = <<RawCharacterOf(id, name, origin, location)>>
          /\ locations_raw = <<RawParentOf("value", "value", "residents", "value")>>
          /\ episodes_raw = <<RawParentOf("value", "value", "characters", "value")>>
       \/ /\ \E id, name, references \in ScalarShapes :
                locations_raw = <<RawParentOf(id, name, "residents", references)>>
          /\ characters_raw = <<RawCharacterOf("value", "value", "named", "named")>>
          /\ episodes_raw = <<RawParentOf("value", "value", "characters", "value")>>
       \/ /\ \E id, name, references \in ScalarShapes :
                episodes_raw = <<RawParentOf(id, name, "characters", references)>>
          /\ characters_raw = <<RawCharacterOf("value", "value", "named", "named")>>
          /\ locations_raw = <<RawParentOf("value", "value", "residents", "value")>>
    /\ characters = <<>> /\ locations = <<>> /\ episodes = <<>>
    /\ loc_lookup = <<>>
    /\ conn = "none"
    /\ loop_i = 0

NormalizeNext == M_Normalize

SpecNormalize == NormalizeInit /\ [][NormalizeNext]_vars

\* -------------------------------------------------- properties: the fetcher
RangeOf(seq) == {seq[i] : i \in 1..Len(seq)}
FailedPages == {p \in PageRange(total_pages) : pg_pc[p] = "failed"}
\* What each page contributes: nothing when all its attempts failed, otherwise
\* the results of the 200 response it got.
Contribution == [p \in 1..total_pages |->
                   IF p \in FailedPages THEN <<>> ELSE ResultsOf(pg_body[p], p)]
\* Exceptions of reading a 200 response's body; the others are fetch failures.
BodyErrors == {"JSONDecodeError", "KeyError"}

\* C1: partial-failure tolerance. Whatever set F of pages failed on all their
\* attempts (network error, timeout, non-200), fetch_all_entities returns
\* exactly the records of the pages not in F, in page order, and no fetch
\* failure makes it raise.
C1_PartialFailureTolerance ==
    /\ (fa_pc = "returned" /\ total_pages >= 1) => ret = FlattenPages(Contribution)
    /\ fa_pc = "raised" => exc \in BodyErrors

\* A page failed on all attempts, the other one delivered, and the call
\* returned the other one's records.
C1_Witness ==
    /\ fa_pc = "returned" /\ total_pages = MaxPages
    /\ FailedPages = {1}
    /\ ret # <<>>
    /\ requests[1] = MAX_RETRIES

C3_GetTotalPagesNeverRaises ==
    /\ tp_pc # "raised"
    /\ tp_pc = "failed" => total_pages = 0

\* C4: when get_total_pages yields 0, fetch_all_entities returns the empty
\* list and no page request is issued.
C4_ZeroPagesNoRequests ==
    (tp_pc \in {"done", "failed"} /\ total_pages = 0) =>
        /\ \A p \in PageIds : requests[p] = 0
        /\ fa_pc = "returned" => ret = <<>>

\* get_total_pages yielded 0 after a 200 response and the call returned.
C4_Witness ==
    /\ fa_pc = "returned" /\ tp_pc = "done" /\ total_pages = 0
    /\ requests[0] >= 1

\* C5: page-order reassembly. In whatever order the page tasks complete, the
\* returned list holds the records the tasks returned, each once, by
\* ascending page number (Records grow with the page number, so the list is
\* strictly increasing).
C5_PageOrderReassembly ==
    (fa_pc = "returned" /\ total_pages >= 1) =>
        /\ \A i, j \in 1..Len(ret) : i < j => ret[i] < ret[j]
        /\ RangeOf(ret) = UNION {RangeOf(pg_result[p]) : p \in PageRange(total_pages)}

\* Page 2 completed before page 1, after a different number of attempts,
\* and both delivered records.
C5_Witness ==
    /\ fa_pc = "returned" /\ total_pages = 2
    /\ doneOrder = <<2, 1>>
    /\ requests[1] = 1 /\ requests[2] = 3
    /\ Len(ret) = 2 * RecsPerPage


\* ------------------------------------------------ properties: the persister
ListedColumns == {bi_columns[j] : j \in 1..Len(bi_columns)}
DataIds == {bi_data[i].id : i \in 1..Len(bi_data)}
\* The last dict of data that carries the id: its statement runs last.
LastWithId(id) ==
    bi_data[CHOOSE i \in 1..Len(bi_data) :
               /\ bi_data[i].id = id
               /\ \A j \in 1..Len(bi_data) : bi_data[j].id = id => j <= i]

\* C8: one batch_insert call is atomic. Until its commit, and when it raised
\* (at whatever page or at the commit), the committed tables are the ones the
\* call found; when it returned, every row of the call is committed. No state
\* has only some pages of the call committed.
C8_BatchInsertAtomic ==
    /\ bi_pc \in {"exec", "commit", "raised"} => db = bi_before
    /\ (bi_pc = "returned" /\ bi_data # <<>>) =>
          \A id \in DataIds : id \in IdsOf(db[bi_table])

\* A call of more than one page failed after its first page had run, and the
\* first page held a row the table did not have.
C8_Witness ==
    /\ bi_pc = "raised" /\ exc = "psycopg2.Error"
    /\ Len(bi_values) > page_size /\ bi_sent = page_size
    /\ \E i \in 1..page_size : bi_data[i].id \notin IdsOf(bi_before[bi_table])

\* C9: the upsert is idempotent. After a second batch_insert with the same
\* data the table holds the same set of rows, and as many, as after the first.
C9_UpsertIdempotent ==
    (calls = 2 /\ bi_pc = "returned") =>
        /\ RowsOf(db[bi_table]) = RowsOf(after_first[bi_table])
        /\ Len(db[bi_table]) = Len(after_first[bi_table])

\* The second call of a list of more than one page, with an id repeated in
\* it, returned; the table holds a row the calls wrote and one they left.
C9_Witness ==
    /\ calls = 2 /\ bi_pc = "returned"
    /\ Len(bi_values) > page_size
    /\ \E i, j \in 1..Len(bi_data) : i # j /\ bi_data[i].id = bi_data[j].id
    /\ \E r1, r2 \in RowsOf(db[bi_table]) : r1.created = "now" /\ r2.created = "old"

\* C10: upsert semantics. After a successful batch_insert every id of the
\* input has exactly one row, at the place of the row it had if it had one,
\* whose listed non-id columns are the incoming values (of the last input
\* dict with that id) and whose other columns are the old row's, or null for
\* a new row; every stored row with another id is unchanged, and no other
\* row appeared.
C10_UpsertSemantics ==
    (bi_pc = "returned" /\ bi_data # <<>>) =>
        LET tbl == db[bi_table]
            old == bi_before[bi_table]
        IN /\ \A id \in DataIds :
                /\ Cardinality(RowsWithId(tbl, id)) = 1
                /\ id \in IdsOf(old) => RowsWithId(tbl, id) = RowsWithId(old, id)
                /\ \A i \in RowsWithId(tbl, id) :
                     \A c \in TableColumns(bi_table) \ {"id"} :
                        tbl[i][c] = IF c \in ListedColumns THEN LastWithId(id)[c]
                                    ELSE IF id \in IdsOf(old) THEN old[i][c]
                                    ELSE NullOf(c)
           /\ \A i \in 1..Len(old) : old[i].id \notin DataIds => tbl[i] = old[i]
           /\ IdsOf(tbl) = IdsOf(old) \cup DataIds

\* A call overwrote the name of a row the table had, and left the row of
\* another id alone.
C10_Witness ==
    /\ bi_pc = "returned" /\ calls = 1
    /\ \E i \in 1..Len(bi_before[bi_table]) :
          /\ bi_before[bi_table][i].id \in DataIds
          /\ bi_before[bi_table][i].name # db[bi_table][i].name
    /\ \E i \in 1..Len(bi_before[bi_table]) : bi_before[bi_table][i].id \notin DataIds


\* --------------------------------------------- properties: the orchestrator
\* C6: fetch independence. A failed request of one entity type's fetch (its
\* total-pages request or a page request) does not end the run: main is never
\* left from one of its three fetch statements by a fetch failure, so the
\* other entity types are still fetched, normalized and persisted.
C6_FetchIndependence ==
    (main_pc = "raised" /\ raised_at \in FetchSteps) => exc \in BodyErrors

\* C7: a run always completes. Whatever the fetches' outcomes and the
\* contents of the reference URLs, main ends at its final log line and never
\* with an exception (a failure of the storage apart).
C7_RunAlwaysCompletes ==
    main_pc = "raised" => exc = "psycopg2.Error"

\* --------------------------------------- properties: relationship tables
RelationTables == {"residents", "episode_characters"}
RelationSteps == {"residents", "episode_characters"}

\* C11: no duplicate relationship rows. In every reachable state of a
\* relationship table, committed or in the open transaction, no two rows have
\* the same (parent, child) pair: insert_relations called again with the same
\* parent and URL list, or with a list that repeats a URL, leaves one row per pair.
C11_NoDuplicateRelations ==
    \A t \in RelationTables : \A tables \in {db, txn_work} :
        \A i, j \in 1..Len(tables[t]) :
            (tables[t][i].parent = tables[t][j].parent
               /\ tables[t][i].child = tables[t][j].child) => i = j

\* insert_relations was called twice for the same parent with the same list,
\* which repeats a URL, and the table holds one row.
C11_Witness ==
    /\ main_pc = "residents" /\ loop_i = 2
    /\ locations[1].id = locations[2].id
    /\ locations[1].residents = PyList(<<U11, U11>>)
    /\ locations[2].residents = PyList(<<U11, U11>>)
    /\ Len(db["residents"]) = 1

StepOfMain == IF main_pc = "raised" THEN raised_at ELSE main_pc
ParentsOf(step) == IF step = "residents" THEN locations ELSE episodes
ReferencesOf(step, parent) ==
    IF step = "residents" THEN parent.residents ELSE parent.characters
\* A list of URLs one of which has a trailing segment that is no number.
HasMalformedUrl(value) ==
    /\ value.type = "list"
    /\ \E i \in 1..Len(value.items) : ~IsInt(TrailingSegment(value.items[i]))
\* The row of url under parent is stored in the table.
Stored(table, parent_id, url) ==
    \E i \in 1..Len(db[table]) :
        /\ db[table][i].parent = parent_id
        /\ db[table][i].child = IntOf(TrailingSegment(url))

\* C13: malformed-URL isolation. A relationship URL whose trailing segment is
\* not numeric does not end the run: main is never left from a relationship
\* loop by the parse error of such a URL, and when the run is through, the
\* well-formed URLs of every parent, the ones listed next to a malformed URL
\* included, have their rows stored.
C13_MalformedUrlIsolation ==
    /\ ~(/\ main_pc = "raised" /\ raised_at \in RelationSteps /\ exc = "ValueError"
         /\ HasMalformedUrl(ReferencesOf(raised_at, ParentsOf(raised_at)[loop_i + 1])))
    /\ main_pc = "done" =>
          \A step \in RelationSteps : \A k \in 1..Len(ParentsOf(step)) :
              LET value == ReferencesOf(step, ParentsOf(step)[k])
              IN value.type = "list" =>
                   \A i \in 1..Len(value.items) :
                       IsInt(TrailingSegment(value.items[i])) =>
                           Stored(step, ParentsOf(step)[k].id, value.items[i])

\* The empty and invalid inputs of parse_pg_array: None, a value that is
\* neither list nor str, the empty string and the serialized empty array.
EmptyReferences == {PyNone, PyOther, PyStr(<<>>), PyStr(<<"{", "}">>)}

\* C14: parse_pg_array yields the empty list for every empty or invalid
\* input, so resolving the relationships of a parent with no references gives
\* no rows and no error: while main is in a relationship loop, the list parsed
\* for the next parent is empty when its reference field is one of these
\* inputs, the loop is never left by an error at such a parent, and as long as
\* every parent gone through had such a field the table has no rows.
C14_ParseEmptyYieldsEmpty ==
    /\ (main_pc \in RelationSteps /\ loop_i < Len(ParentsOf(main_pc))) =>
          LET value == ReferencesOf(main_pc, ParentsOf(main_pc)[loop_i + 1])
          IN value \in EmptyReferences => parse_pg_array(value) = <<>>
    /\ ~(/\ main_pc = "raised" /\ raised_at \in RelationSteps /\ exc = "ValueError"
         /\ ReferencesOf(raised_at, ParentsOf(raised_at)[loop_i + 1]) \in EmptyReferences)
    /\ (/\ main_pc \in RelationSteps
        /\ \A k \in 1..loop_i :
              ReferencesOf(main_pc, ParentsOf(main_pc)[k]) \in EmptyReferences) =>
          db[main_pc] = <<>>

\* ------------------------------------------ properties: the resolver
\* main is past loc_lookup = build_location_lookup(locations).
LookupBuilt ==
    StepOfMain \in {"insert_characters", "residents", "episode_characters", "close", "done"}

\* C15: buildLookup is last-write-wins. Once built, the lookup's keys are
\* exactly the names of the location list, and each name maps to the id of the
\* last location of the list that carries it.
C15_LookupLastWriteWins ==
    LookupBuilt =>
        /\ DOMAIN loc_lookup = {locations[i].name : i \in 1..Len(locations)}
        /\ \A i \in 1..Len(locations) :
              (\A j \in (i + 1)..Len(locations) : locations[j].name # locations[i].name)
                 => loc_lookup[locations[i].name] = locations[i].id

\* Two locations of different ids share a name, and the lookup gives the
\* second one's id.
C15_Witness ==
    /\ LookupBuilt /\ Len(locations) = 2
    /\ locations[1].name = locations[2].name
    /\ locations[1].id = 1 /\ locations[2].id = 2
    /\ loc_lookup[locations[1].name] = 2

\* main is past insert_characters_with_fk.
CharactersPersisted ==
    StepOfMain \in {"residents", "episode_characters", "close", "done"}

\* C16: foreign-key resolution. Once the characters are persisted, the row of
\* every character (of the last one in the list, when an id repeats) has as
\* location_id the id the lookup gives the character's location name, or
\* null when the lookup has no such name; and nothing but a failure of the
\* storage makes insert_characters_with_fk raise.
C16_ForeignKeyResolution ==
    /\ CharactersPersisted =>
          \A i \in 1..Len(characters) :
              (\A j \in (i + 1)..Len(characters) : characters[j].id # characters[i].id) =>
                  \E k \in 1..Len(db["characters"]) :
                      /\ db["characters"][k].id = characters[i].id
                      /\ db["characters"][k].location_id =
                            IF characters[i].location \in DOMAIN loc_lookup
                              THEN <<loc_lookup[characters[i].location]>> ELSE <<>>
    /\ (main_pc = "raised" /\ raised_at = "insert_characters") => exc = "psycopg2.Error"

\* Locations 1 (Earth) and 2 (Mars); a character located on Earth is stored
\* with location_id 1 and one located elsewhere with null.
C16_Witness ==
    /\ CharactersPersisted
    /\ Len(locations) = 2 /\ locations[1].id = 1 /\ locations[1].name = "Earth"
    /\ locations[2].id = 2 /\ locations[2].name = "Mars"
    /\ \E k \in 1..Len(db["characters"]) : db["characters"][k].location_id = <<1>>
    /\ \E k \in 1..Len(db["characters"]) : db["characters"][k].location_id = <<>>

\* --------------------------------------------- properties: the run's order
\* Every entity of the list has its row committed in the table.
Committed(table, entities) ==
    \A i \in 1..Len(entities) : entities[i].id \in IdsOf(db[table])
\* The tables as the connection has them, uncommitted work included.
Written(table) == db[table] # <<>> \/ txn_work[table] # <<>>

\* C17: persistence ordering in a run. When the characters persist call
\* starts (and whenever a characters row is written), the locations and the
\* episodes of the run are committed; and whenever a relationship row is
\* written, the entities of both types it refers to are committed: locations
\* and characters for residents, episodes and characters for episode_characters.
C17_PersistenceOrdering ==
    /\ (StepOfMain = "insert_characters" \/ CharactersPersisted \/ Written("characters")) =>
          Committed("locations", locations) /\ Committed("episodes", episodes)
    /\ Written("residents") =>
          Committed("locations", locations) /\ Committed("characters", characters)
    /\ Written("episode_characters") =>
          Committed("episodes", episodes) /\ Committed("characters", characters)

\* Rows of both relationship tables are stored, after the rows of the three
\* entity types.
C17_Witness ==
    /\ db["residents"] # <<>> /\ db["episode_characters"] # <<>>
    /\ db["locations"] # <<>> /\ db["episodes"] # <<>> /\ db["characters"] # <<>>

BatchSteps == {"insert_locations", "insert_episodes", "insert_characters"}
\* The tables the statements after step write.
TablesAfter(step) ==
    CASE step = "insert_locations" ->
             {"episodes", "characters", "residents", "episode_characters"}
      [] step = "insert_episodes" -> {"characters", "residents", "episode_characters"}
      [] step = "insert_characters" -> {"residents", "episode_characters"}
      [] step = "residents" -> {"episode_characters"}
      [] step = "episode_characters" -> {}
\* Every stored row of the relationship table comes from a parent the loop
\* went through before the one it is at.
FromEarlierParents(step) ==
    \A i \in 1..Len(db[step]) :
        \E k \in 1..loop_i :
            LET urls == parse_pg_array(ReferencesOf(step, ParentsOf(step)[k]))
            IN /\ db[step][i].parent = ParentsOf(step)[k].id
               /\ \E u \in 1..Len(urls) : db[step][i].url = urls[u]

FieldOrNone(raw, key) == IF key \in DOMAIN raw THEN raw[key] ELSE None
\* The name of the nested object under key, None when the object or its name
\* is absent or null.
NameOrNone(raw, key) ==
    IF key \in DOMAIN raw /\ raw[key] # PyNone /\ "name" \in DOMAIN raw[key]
      THEN raw[key].name ELSE None
ReferencesOrNone(raw, key) == IF key \in DOMAIN raw THEN raw[key] ELSE PyNone
IdOrNone(raw) == IF "id" \in DOMAIN raw THEN raw.id ELSE PyNone

\* C20: normalizer totality. Whatever top-level or nested field of a raw
\* record is absent or null, the normalization does not raise, and each
\* entity has the record's value in every field the record has and null in
\* the fields it lacks (origin and location: the nested name, null when the
\* object or its name is absent or null).
C20_NormalizerTotality ==
    /\ ~(main_pc = "raised" /\ raised_at = "normalize")
    /\ main_pc = "connect" =>
          /\ Len(characters) = Len(characters_raw)
          /\ \A i \in 1..Len(characters) :
                /\ characters[i].id = IdOrNone(characters_raw[i])
                /\ characters[i].name = FieldOrNone(characters_raw[i], "name")
                /\ characters[i].origin = NameOrNone(characters_raw[i], "origin")
                /\ characters[i].location = NameOrNone(characters_raw[i], "location")
          /\ \A i \in 1..Len(locations) :
                /\ locations[i].id = IdOrNone(locations_raw[i])
                /\ locations[i].name = FieldOrNone(locations_raw[i], "name")
                /\ locations[i].residents = ReferencesOrNone(locations_raw[i], "residents")
          /\ \A i \in 1..Len(episodes) :
                /\ episodes[i].id = IdOrNone(episodes_raw[i])
                /\ episodes[i].name = FieldOrNone(episodes_raw[i], "name")
                /\ episodes[i].characters = ReferencesOrNone(episodes_raw[i], "characters")

\* ------------------------------------------------ properties: the invariants
\* C21: every entity the normalizers produce has a non-null id, whatever the
\* raw record is (a record without an id field included).
C21_IdNeverNull ==
    main_pc = "connect" =>
        /\ \A i \in 1..Len(characters) : characters[i].id # PyNone
        /\ \A i \in 1..Len(locations) : locations[i].id # PyNone
        /\ \A i \in 1..Len(episodes) : episodes[i].id # PyNone

\* ------------------------------------- properties: the fetch state machine
\* The state of the task of page p: Pending before its first request,
\* Retry(n) on attempt n, Done, Failed.
TaskStates == {"none", "get", "sleep", "done", "failed"}
TerminalStates == {"done", "failed"}

\* C22: the per-page fetch state machine. A page task goes from Pending
\* through Retry(n), n in 1..MAX_RETRIES, to Done or Failed and has no other
\* outcome (no exception leaves it, a 200 response with an unreadable body
\* included); Done and Failed are terminal; Failed is entered only from
\* Retry(MAX_RETRIES).
C22_FetchStateMachine ==
    /\ [](\A p \in PageIds :
            /\ pg_pc[p] \in TaskStates
            /\ pg_pc[p] \in {"get", "sleep"} => pg_attempt[p] \in 1..MAX_RETRIES)
    /\ [][\A p \in PageIds :
            /\ pg_pc[p] \in TerminalStates => pg_pc'[p] = pg_pc[p]
            /\ (pg_pc'[p] = "failed" /\ pg_pc[p] # "failed") =>
                  (pg_pc[p] = "sleep" /\ pg_attempt[p] = MAX_RETRIES)]_vars

\* The backoff delays in seconds, by attempt: 1, 1.5, 2.25, 3.375, 5.0625.
ExpectedDelay == <<<<1, 1>>, <<3, 2>>, <<9, 4>>, <<27, 8>>, <<81, 16>>>>
RetryState(u) == <<requests[u], sleeps[u], delays[u]>>

\* C23: retry cap and triggers. One call of get_total_pages or fetch_page
\* issues at most MAX_RETRIES GETs; attempt k+1 is issued only when each of
\* the attempts 1..k failed (no 200 response was received) and was followed
\* by its backoff, the k-th of BACKOFF_FACTOR ** (k-1) seconds; a step of one
\* page's retries leaves the retries of every other URL as they are.
C23_RetryCapAndTriggers ==
    /\ [](\A u \in Urls :
            /\ requests[u] <= MAX_RETRIES
            /\ \A k \in 1..Len(delays[u]) : delays[u][k] = ExpectedDelay[k])
    /\ [][\A u \in Urls :
            (requests'[u] # requests[u] /\ requests[u] >= 1) =>
                /\ requests'[u] = requests[u] + 1
                /\ sleeps[u] = requests[u]
                /\ Len(delays[u]) = requests[u]
                /\ u \in PageIds => pg_body[u] = "none"
                /\ u = 0 => tp_pc = "get"]_vars
    /\ [][\A u, v \in Urls :
            (u # v /\ RetryState(u)' # RetryState(u)) =>
                RetryState(v)' = RetryState(v)]_vars

\* Page 1 is on its fifth attempt after four backoffs while page 2 was
\* delivered on its first, and the page count took two attempts.
C23_Witness ==
    /\ requests[0] = 2 /\ delays[0] = <<<<1, 1>>>>
    /\ requests[1] = MAX_RETRIES /\ Len(delays[1]) = MAX_RETRIES - 1
    /\ delays[1][4] = <<27, 8>>
    /\ pg_pc[2] = "done" /\ requests[2] = 1 /\ delays[2] = <<>>

\* get_total_pages has ended: it returned or raised.
TotalEnded == tp_pc \in {"done", "failed", "raised"}
StartedPages == {p \in PageIds : pg_pc[p] # "none"}

\* C24: the request protocol of fetch_all_entities. get_total_pages is
\* invoked once, at the start of the call; no page task exists and no page
\* request is issued before it returned; then there is one fetch_page task
\* for each page of 1..N and for no other page; the call returns only when
\* all N tasks have completed.
C24_FetchAllProtocol ==
    /\ [](/\ fa_pc \in {"gather", "returned"} => tp_pc \in {"done", "failed"}
          /\ \A p \in PageIds :
                (p \in StartedPages \/ requests[p] >= 1) => tp_pc = "done"
          /\ (fa_pc = "gather" \/ (fa_pc = "returned" /\ total_pages >= 1)) =>
                StartedPages = 1..total_pages
          /\ fa_pc = "returned" =>
                \A p \in 1..total_pages : pg_pc[p] \in TerminalStates)
    /\ [][/\ (tp_pc' = "get" /\ tp_pc = "idle") => fa_pc = "idle"
          /\ TotalEnded => UNCHANGED <<tp_pc, tp_attempt, total_pages, requests[0]>>
          /\ StartedPages # {} => StartedPages' = StartedPages]_vars

\* The call returned with both pages' tasks completed, one of them after
\* retries, and the page count obtained on the second attempt.
C24_Witness ==
    /\ fa_pc = "returned" /\ total_pages = MaxPages
    /\ requests[0] = 2
    /\ \A p \in 1..MaxPages : pg_pc[p] \in TerminalStates
    /\ requests[MaxPages] = 2

\* C28: fetch_page and get_total_pages stop at the first success and back
\* off after every failure. A call that received a 200 response has slept
\* once after each of the attempts before it and issues no GET and no sleep
\* afterwards; a call that returned its empty result ([] or 0) has slept
\* after each of its MAX_RETRIES attempts, the last one included.
C28_StopAtSuccessSleepAfterFailure ==
    /\ [](/\ \A p \in PageIds :
                /\ pg_pc[p] \in {"done", "raised"} => sleeps[p] = requests[p] - 1
                /\ pg_pc[p] = "failed" =>
                      /\ requests[p] = MAX_RETRIES
                      /\ sleeps[p] = MAX_RETRIES
                      /\ delays[p][MAX_RETRIES] = ExpectedDelay[MAX_RETRIES]
          /\ tp_pc \in {"done", "raised"} => sleeps[0] = requests[0] - 1
          /\ tp_pc = "failed" =>
                /\ requests[0] = MAX_RETRIES
                /\ sleeps[0] = MAX_RETRIES
                /\ delays[0][MAX_RETRIES] = ExpectedDelay[MAX_RETRIES])
    /\ [][/\ \A p \in PageIds :
                pg_pc[p] \in {"done", "raised"} => RetryState(p)' = RetryState(p)
          /\ tp_pc \in {"done", "raised"} => RetryState(0)' = RetryState(0)]_vars

\* The page count came with the first response and was followed by page
\* requests; page 1 gave up after five attempts and five backoffs; page 2
\* was delivered on its second attempt after one backoff.
C28_Witness ==
    /\ tp_pc = "done" /\ requests[0] = 1 /\ sleeps[0] = 0
    /\ pg_pc[1] = "failed" /\ sleeps[1] = MAX_RETRIES
    /\ pg_pc[2] = "done" /\ requests[2] = 2 /\ sleeps[2] = 1

\* --------------------------------------- properties: the transactions
\* No batch call is running: main is before, between or after its calls.
BetweenCalls == bi_pc \in {"idle", "returned"} /\ main_pc # "raised"
NoUncommittedWork == txn_state = "idle" /\ txn_work = db

\* C25: exclusive transaction ownership. Whenever a batch_insert or
\* insert_relations call starts, and whenever one has returned, the
\* connection holds no uncommitted work; while a call runs, the open
\* transaction holds statements of that call's table only.
C25_ExclusiveTransactionOwnership ==
    /\ BetweenCalls => NoUncommittedWork
    /\ bi_pc \in {"exec", "commit"} =>
          \A t \in TableNames \ {bi_table} : txn_work[t] = db[t]

\* The episodes call has run its statements and not yet committed, on top of
\* the locations the call before it committed.
C25_Witness ==
    /\ main_pc = "insert_episodes" /\ bi_pc = "commit" /\ txn_state = "open"
    /\ db["locations"] # <<>> /\ db["episodes"] = <<>>
    /\ txn_work["episodes"] # <<>> /\ txn_work["locations"] = db["locations"]

\* C26: the per-run transaction boundary. The entity upserts and the
\* relationship inserts of a run are in one transaction, so a run that ends
\* with a failure (a later persist step fails, or the relationship
\* resolution is cut short) leaves none of its relationship rows committed.
C26_PerRunTransaction ==
    main_pc = "raised" => \A t \in RelationTables : db[t] = <<>>

\* The reference field of the parent the relationship loop of main is at.
NextReferences == ReferencesOf(main_pc, ParentsOf(main_pc)[loop_i + 1])
AtEmptyReferences ==
    /\ main_pc \in RelationSteps
    /\ loop_i < Len(ParentsOf(main_pc))
    /\ parse_pg_array(NextReferences) = <<>>

\* C27: empty input is a no-op for the persister. batch_insert with an empty
\* entity list runs no statement and no commit and returns with every table
\* and the transaction as they were; an insert_relations call whose list of
\* URLs is empty returns likewise.
C27_EmptyInputNoOp ==
    /\ []((bi_data = <<>> /\ bi_pc # "idle") =>
            /\ bi_pc = "returned"
            /\ bi_sent = 0
            /\ db = bi_before)
    /\ [][(bi_pc = "idle" /\ bi_pc' # "idle" /\ bi_data' = <<>>) =>
            UNCHANGED <<db, txn_state, txn_work>>]_vars
    /\ [][AtEmptyReferences =>
            /\ UNCHANGED <<db, txn_state, txn_work>>
            /\ main_pc' # "raised"]_vars

\* A run with no episode and a first location whose residents list is empty:
\* the episodes call returned at once, the relationship loop is past that
\* location, and the tables hold the locations and characters only.
C27_Witness ==
    /\ main_pc = "residents" /\ loop_i = 1
    /\ locations[1].residents = PyList(<<>>)
    /\ episodes = <<>> /\ db["episodes"] = <<>>
    /\ db["locations"] # <<>> /\ db["characters"] # <<>>
    /\ db["residents"] = <<>>

\* --------------------------------------- properties: the foreign keys
\* The ids of the locations the run handed to its locations persist call.
RunLocationIds == {locations[i].id : i \in 1..Len(locations)}
\* The character rows as committed and as the open transaction has them.
CharacterRows == RowsOf(db["characters"]) \cup RowsOf(txn_work["characters"])

\* C29: referential integrity of the foreign key. The location_id of every
\* character row a run writes is null or the id of a location of the run's
\* location list, whose persist call committed before the row was written.
C29_ForeignKeyIntegrity ==
    \A row \in CharacterRows :
        \/ row.location_id = <<>>
        \/ /\ row.location_id[1] \in RunLocationIds
           /\ row.location_id[1] \in IdsOf(db["locations"])

\* Two character rows are committed, one with the id of a committed location
\* of the run as location_id and one with null.
C29_Witness ==
    /\ CharactersPersisted
    /\ \E i, j \in 1..Len(db["characters"]) :
          /\ db["characters"][i].location_id # <<>>
          /\ db["characters"][i].location_id[1] \in IdsOf(db["locations"])
          /\ db["characters"][j].location_id = <<>>

\* ------------------------------------------- properties: termination
RECURSIVE SumOver(_, _)
SumOver(f, S) ==
    IF S = {} THEN 0
    ELSE LET u == CHOOSE x \in S : TRUE IN f[u] + SumOver(f, S \ {u})
TotalRequests == SumOver(requests, Urls)
CallEnded == fa_pc \in {"returned", "raised"}

\* C30: termination of the fetch phase. Every GET that is issued completing,
\* a fetch_all_entities call that was started ends; for the page count N it
\* was told it issues at most MAX_RETRIES * (N + 1) requests; and when it has
\* ended every page task is Done or Failed.
C30_FetchTerminates ==
    /\ (fa_pc = "total") ~> CallEnded
    /\ [](TotalRequests <= MAX_RETRIES * (total_pages + 1))
    /\ [](CallEnded => \A p \in 1..total_pages : pg_pc[p] \in TerminalStates)

====
